---------------------------- MODULE Spec2Model ----------------------------
(***************************************************************************)
(* Model of generate_feed.py: the Weeklypedia RSS feed generator.          *)
(*                                                                         *)
(* Text is modelled as a sequence of one-character strings, so that the    *)
(* regular expressions of the source are matched character by character.   *)
(* An optional value (Python None or a value) is a sequence of length 0    *)
(* or 1.  A descriptor's "content" key that was never set and one set to   *)
(* None are both the empty option: issue.get("content") reads both as None.*)
(***************************************************************************)
EXTENDS Integers, Sequences, FiniteSets, TLC

VARIABLES
    pc,        \* position of the program
    anchors,   \* the entries the fetched index page is made of (input)
    html,      \* text of the index page
    issues,    \* list of issue descriptors (dicts)
    blocks,    \* the sections an issue page is made of (input)
    bodied,    \* whether that issue page has a body element (input)
    page,      \* text of an issue page
    content,   \* value returned by extract_content
    maxItems,  \* max_items argument of generate_rss
    rss_xml,   \* value returned by generate_rss
    i,         \* loop index of main's enrichment loop (1-based)
    fetchLog,  \* addresses passed to fetch_url, in call order
    warnings,  \* addresses named in the printed "Failed to fetch" warnings
    feed       \* what was written to feed.xml

vars == <<pc, anchors, html, issues, blocks, bodied, page, content, maxItems,
          rss_xml, i, fetchLog, warnings, feed>>

---------------------------------------------------------------------------
(* Bounds of the model *)

MaxAnchors == 3
MaxBlocks == 3
MaxRssLen == 3
MaxItemsArg == 4
MaxIssues == 11

---------------------------------------------------------------------------
(* Program constants *)

ARCHIVE_URL == <<"h", "t", "t", "p", "s", ":", "/", "/", "w", "e", "e", "k", "l", "y", ".", "h", "a", "t", "n", "o", "t", "e", ".", "c", "o", "m", "/", "a", "r", "c", "h", "i", "v", "e", "/", "e", "n", "/", "i", "n", "d", "e", "x", ".", "h", "t", "m", "l">>
BASE_URL == <<"h", "t", "t", "p", "s", ":", "/", "/", "w", "e", "e", "k", "l", "y", ".", "h", "a", "t", "n", "o", "t", "e", ".", "c", "o", "m", "/", "a", "r", "c", "h", "i", "v", "e", "/", "e", "n", "/">>
FEED_TITLE == <<"W", "e", "e", "k", "l", "y", "p", "e", "d", "i", "a">>
FEED_DESCRIPTION == <<"T", "h", "e", " ", "m", "o", "s", "t", " ", "e", "d", "i", "t", "e", "d", " ", "W", "i", "k", "i", "p", "e", "d", "i", "a", " ", "a", "r", "t", "i", "c", "l", "e", "s", " ", "a", "n", "d", " ", "d", "i", "s", "c", "u", "s", "s", "i", "o", "n", "s", " ", "f", "r", "o", "m", " ", "t", "h", "e", " ", "l", "a", "s", "t", " ", "w", "e", "e", "k">>
FEED_LINK == <<"h", "t", "t", "p", "s", ":", "/", "/", "w", "e", "e", "k", "l", "y", ".", "h", "a", "t", "n", "o", "t", "e", ".", "c", "o", "m", "/">>
FETCH_CONTENT_COUNT == 10
DefaultMaxItems == 50

---------------------------------------------------------------------------
(* Options and small helpers *)

None == <<>>
Some(x) == <<x>>

Min(a, b) == IF a <= b THEN a ELSE b

SetMin(S) == CHOOSE x \in S : \A y \in S : x <= y
SetMax(S) == CHOOSE x \in S : \A y \in S : y <= x

\* the concatenation of a sequence of sequences
RECURSIVE Flatten(_)
Flatten(ss) ==
    IF ss = <<>> THEN <<>>
    ELSE IF Len(ss) = 1 THEN ss[1]
    ELSE LET h == Len(ss) \div 2
         IN  Flatten(SubSeq(ss, 1, h)) \o Flatten(SubSeq(ss, h + 1, Len(ss)))

RECURSIVE SeqsUpTo(_, _)
SeqsUpTo(S, n) ==
    IF n = 0 THEN {<<>>}
    ELSE LET shorter == SeqsUpTo(S, n - 1)
         IN  shorter \cup {Append(s, x) : s \in {t \in shorter : Len(t) = n - 1}, x \in S}

---------------------------------------------------------------------------
(* Regular-expression primitives over character sequences *)

DigitChars == <<"0", "1", "2", "3", "4", "5", "6", "7", "8", "9">>

IsDigit(c) == \E k \in 1..10 : DigitChars[k] = c

DigitVal(c) == (CHOOSE k \in 1..10 : DigitChars[k] = c) - 1

\* the literal lit occurs in s at position p
MatchLit(s, p, lit) ==
    /\ p >= 1
    /\ p + Len(lit) - 1 <= Len(s)
    /\ \A k \in 1..Len(lit) : s[p + k - 1] = lit[k]

\* first position >= p where lit occurs in s, or 0
FindLit(s, p, lit) ==
    LET hits == {q \in p..(Len(s) - Len(lit) + 1) : MatchLit(s, q, lit)}
    IN  IF hits = {} THEN 0 ELSE SetMin(hits)

\* \d{n} at position p
DigitsAt(s, p, n) ==
    /\ p >= 1
    /\ p + n - 1 <= Len(s)
    /\ \A k \in 0..(n - 1) : IsDigit(s[p + k])

\* str.strip(): leading and trailing whitespace removed
Whitespace == {" ", "\n", "\t", "\r"}

Strip(s) ==
    LET keep == {k \in 1..Len(s) : s[k] \notin Whitespace}
    IN  IF keep = {} THEN <<>> ELSE SubSeq(s, SetMin(keep), SetMax(keep))

---------------------------------------------------------------------------
(* datetime.strptime(date_str, "%Y%m%d") and strftime *)

IsLeap(y) == (y % 4 = 0 /\ y % 100 # 0) \/ y % 400 = 0

DaysInMonth(y, m) ==
    IF m = 2 THEN (IF IsLeap(y) THEN 29 ELSE 28)
    ELSE IF m \in {4, 6, 9, 11} THEN 30 ELSE 31

\* %Y is four digits; %m and %d are one or two digits each (a single digit
\* is never 0), and the whole string must be consumed; the date must exist
\* (year >= 1, day within the month). None where Python raises ValueError.
Num2(s, p, n) == IF n = 1 THEN DigitVal(s[p]) ELSE 10 * DigitVal(s[p]) + DigitVal(s[p + 1])

\* a strptime that checks the fields' ranges but not the length of the month
StrptimeNoMonthLength(ds) ==
    IF Len(ds) # 8 THEN None
    ELSE LET y == 1000 * DigitVal(ds[1]) + 100 * DigitVal(ds[2])
                  + 10 * DigitVal(ds[3]) + DigitVal(ds[4])
             m == Num2(ds, 5, 2)
             d == Num2(ds, 7, 2)
         IN  IF m \in 1..12 /\ d \in 1..31 THEN Some(<<y, m, d>>) ELSE None

Strptime(ds) ==
    LET y == 1000 * DigitVal(ds[1]) + 100 * DigitVal(ds[2])
             + 10 * DigitVal(ds[3]) + DigitVal(ds[4])
        splits == {ml \in 1..2 : Len(ds) - 4 - ml \in 1..2}
        good == {ml \in splits :
                    LET dl == Len(ds) - 4 - ml
                        m == Num2(ds, 5, ml)
                        d == Num2(ds, 5 + ml, dl)
                    IN  /\ m \in 1..12
                        /\ (ml = 1 => DigitVal(ds[5]) # 0)
                        /\ (dl = 1 => DigitVal(ds[5 + ml]) # 0)
                        /\ d \in 1..31
                        /\ y >= 1
                        /\ d <= DaysInMonth(y, m)}
    IN  IF Len(ds) < 4 \/ ~DigitsAt(ds, 1, Len(ds)) \/ good = {} THEN None
        ELSE LET ml == SetMax(good)
             IN  Some(<<y, Num2(ds, 5, ml), Num2(ds, 5 + ml, Len(ds) - 4 - ml)>>)

DayNames == <<<<"S", "u", "n">>, <<"M", "o", "n">>, <<"T", "u", "e">>, <<"W", "e", "d">>, <<"T", "h", "u">>, <<"F", "r", "i">>, <<"S", "a", "t">>>>
MonthNames == <<<<"J", "a", "n">>, <<"F", "e", "b">>, <<"M", "a", "r">>, <<"A", "p", "r">>, <<"M", "a", "y">>, <<"J", "u", "n">>,
                <<"J", "u", "l">>, <<"A", "u", "g">>, <<"S", "e", "p">>, <<"O", "c", "t">>, <<"N", "o", "v">>, <<"D", "e", "c">>>>
MonthOffsets == <<0, 3, 2, 5, 0, 3, 5, 1, 4, 6, 2, 4>>

\* day of the week of a proleptic Gregorian date, 0 = Sunday
Weekday(date) ==
    LET y == IF date[2] < 3 THEN date[1] - 1 ELSE date[1]
    IN  (y + (y \div 4) - (y \div 100) + (y \div 400)
           + MonthOffsets[date[2]] + date[3]) % 7

RECURSIVE NatChars(_)
NatChars(n) ==
    IF n < 10 THEN <<DigitChars[n + 1]>>
    ELSE NatChars(n \div 10) \o <<DigitChars[(n % 10) + 1]>>

Pad2(n) == <<DigitChars[(n \div 10) + 1], DigitChars[(n % 10) + 1]>>

\* date.strftime("%a, %d %b %Y 12:00:00 GMT")
Strftime(date) ==
    DayNames[Weekday(date) + 1] \o <<",", " ">> \o Pad2(date[3]) \o <<" ">>
        \o MonthNames[date[2]] \o <<" ">> \o NatChars(date[1]) \o <<" ", "1", "2", ":", "0", "0", ":", "0", "0", " ", "G", "M", "T">>

---------------------------------------------------------------------------
(* parse_issues *)

AOpen == <<"<", "a", " ", "h", "r", "e", "f", "=", "\"">>
WpLit == <<"/", "w", "e", "e", "k", "l", "y", "p", "e", "d", "i", "a", "_">>
HtmlLit == <<".", "h", "t", "m", "l">>
QuoteGt == <<"\"", ">">>
AClose == <<"<", "/", "a", ">">>
TitlePrefix == <<"W", "e", "e", "k", "l", "y", "p", "e", "d", "i", "a", " ", "-", " ">>

NoMatch == [ok |-> FALSE, path |-> <<>>, label |-> <<>>, end |-> 0]

\* <a href="(\d{8}/weeklypedia_\d{8}\.html)">([^<]+)</a> tried at position p
AnchorAt(s, p) ==
    LET d1 == p + Len(AOpen)
        w  == d1 + 8
        d2 == w + Len(WpLit)
        h  == d2 + 8
        q  == h + Len(HtmlLit)
        l  == q + Len(QuoteGt)
        lt == FindLit(s, l, <<"<">>)
    IN  IF /\ MatchLit(s, p, AOpen)
           /\ DigitsAt(s, d1, 8)
           /\ MatchLit(s, w, WpLit)
           /\ DigitsAt(s, d2, 8)
           /\ MatchLit(s, h, HtmlLit)
           /\ MatchLit(s, q, QuoteGt)
           /\ lt > l
           /\ MatchLit(s, lt, AClose)
        THEN [ok |-> TRUE, path |-> SubSeq(s, d1, q - 1),
              label |-> SubSeq(s, l, lt - 1), end |-> lt + Len(AClose)]
        ELSE NoMatch

\* re.findall(pattern, html): leftmost non-overlapping matches from p on
RECURSIVE FindAllAnchors(_, _)
FindAllAnchors(s, p) ==
    LET c == FindLit(s, p, AOpen)
    IN  IF c = 0 THEN <<>>
        ELSE LET m == AnchorAt(s, c)
             IN  IF m.ok THEN <<m>> \o FindAllAnchors(s, m.end)
                 ELSE FindAllAnchors(s, c + 1)

\* a search that yields the last run of eight digits
SearchDateLast(path) ==
    LET hits == {p \in 1..Len(path) : DigitsAt(path, p, 8)}
    IN  IF hits = {} THEN None
        ELSE Some(SubSeq(path, SetMax(hits), SetMax(hits) + 7))

\* re.search(r"(\d{8})", path): the first run of eight digits, or None
SearchDate(path) ==
    LET hits == {p \in 1..Len(path) : DigitsAt(path, p, 8)}
    IN  IF hits = {} THEN None
        ELSE Some(SubSeq(path, SetMin(hits), SetMin(hits) + 7))

Descriptor(m, date) ==
    [url |-> BASE_URL \o m.path,
     title |-> TitlePrefix \o Strip(m.label),
     date |-> date,
     date_text |-> Strip(m.label),
     content |-> None]

\* the body of the for loop of parse_issues, for one match
IssueOf(m) ==
    LET date_match == SearchDate(m.path)
    IN  IF date_match = None THEN <<>>
        ELSE LET pub_date == Strptime(date_match[1])
             IN  IF pub_date = None THEN <<>>
                 ELSE <<Descriptor(m, pub_date[1])>>

RECURSIVE IssuesOfMatches(_)
IssuesOfMatches(ms) ==
    IF ms = <<>> THEN <<>>
    ELSE IssueOf(Head(ms)) \o IssuesOfMatches(Tail(ms))

parse_issues(text) == IssuesOfMatches(FindAllAnchors(text, 1))

---------------------------------------------------------------------------
(* Index pages: the inputs of parse_issues *)

\* One entry of an index page: the date of the directory token, the date of
\* the file token, the label, whether the directory token is a calendar
\* date, and whether the entry is written in the shape of an issue link.
A1 == [dir |-> <<2025, 1, 2>>, file |-> <<2025, 1, 2>>, label |-> <<" ", "J", "a", "n", " ", "2", ",", " ", "2", "0", "2", "5", " ">>,
       trimmed |-> <<"J", "a", "n", " ", "2", ",", " ", "2", "0", "2", "5">>, calendar |-> TRUE, shaped |-> TRUE]
A2 == [dir |-> <<2024, 2, 29>>, file |-> <<2024, 2, 29>>, label |-> <<"F", "e", "b", " ", "2", "9">>,
       trimmed |-> <<"F", "e", "b", " ", "2", "9">>, calendar |-> TRUE, shaped |-> TRUE]
A3 == [dir |-> <<9999, 99, 99>>, file |-> <<9999, 99, 99>>, label |-> <<"b", "a", "d">>,
       trimmed |-> <<"b", "a", "d">>, calendar |-> FALSE, shaped |-> TRUE]
A4 == [dir |-> <<2023, 2, 29>>, file |-> <<2023, 2, 29>>, label |-> <<"n", "l", "\n">>,
       trimmed |-> <<"n", "l">>, calendar |-> FALSE, shaped |-> TRUE]
A5 == [dir |-> <<2025, 3, 1>>, file |-> <<2024, 12, 31>>, label |-> <<"m", "i", "x">>,
       trimmed |-> <<"m", "i", "x">>, calendar |-> TRUE, shaped |-> TRUE]
A6 == [dir |-> <<2025, 1, 16>>, file |-> <<2025, 1, 16>>, label |-> <<"o", "l", "d">>,
       trimmed |-> <<"o", "l", "d">>, calendar |-> TRUE, shaped |-> FALSE]

AnchorPool == {A1, A2, A3, A4, A5, A6}

Token(date) == NatChars(date[1]) \o Pad2(date[2]) \o Pad2(date[3])

PathOf(a) == Token(a.dir) \o WpLit \o Token(a.file) \o HtmlLit

\* an entry that is not in the shape of an issue link has seven-digit tokens
Short(tok) == SubSeq(tok, 1, 7)

RenderAnchor(a) ==
    IF a.shaped
    THEN AOpen \o PathOf(a) \o QuoteGt \o a.label \o AClose \o <<"<", "b", "r", ">", "\n">>
    ELSE AOpen \o Short(Token(a.dir)) \o WpLit \o Short(Token(a.file)) \o HtmlLit
             \o QuoteGt \o a.label \o AClose \o <<"<", "b", "r", ">", "\n">>

RenderIndex(as) == <<"<", "u", "l", ">", "\n">> \o Flatten([k \in 1..Len(as) |-> RenderAnchor(as[k])]) \o <<"<", "/", "u", "l", ">">>

---------------------------------------------------------------------------
(* extract_content *)

BodyOpen == <<"<", "b", "o", "d", "y">>
BodyClose == <<"<", "/", "b", "o", "d", "y", ">">>
H2Open == <<"<", "h", "2">>
H2Close == <<"<", "/", "h", "2", ">">>
OlOpen == <<"<", "o", "l">>
OlClose == <<"<", "/", "o", "l", ">">>
Gt == <<">">>
Lt == <<"<">>

SectionNames == {<<"A", "r", "t", "i", "c", "l", "e", "s">>, <<"N", "e", "w", " ", "A", "r", "t", "i", "c", "l", "e", "s">>, <<"D", "i", "s", "c", "u", "s", "s", "i", "o", "n", "s">>}

\* re.search(r'<body[^>]*>(.*?)</body>', html, re.DOTALL): group 1, or None
BodyOf(s) ==
    LET hits == {b \in 1..Len(s) :
                    /\ MatchLit(s, b, BodyOpen)
                    /\ FindLit(s, b + Len(BodyOpen), Gt) > 0
                    /\ FindLit(s, FindLit(s, b + Len(BodyOpen), Gt) + 1, BodyClose) > 0}
    IN  IF hits = {} THEN None
        ELSE LET b == SetMin(hits)
                 g == FindLit(s, b + Len(BodyOpen), Gt)
                 e == FindLit(s, g + 1, BodyClose)
             IN  Some(SubSeq(s, g + 1, e - 1))

\* a search for an ordered list with a greedy tail: it closes at the last
\* </ol> of the text
OlFromGreedy(s, p) ==
    LET o == FindLit(s, p, OlOpen)
        g == IF o = 0 THEN 0 ELSE FindLit(s, o + Len(OlOpen), Gt)
        closes == {e \in (g + 1)..Len(s) : MatchLit(s, e, OlClose)}
    IN  IF o = 0 \/ g = 0 \/ closes = {} THEN [ok |-> FALSE, start |-> 0, end |-> 0]
        ELSE [ok |-> TRUE, start |-> o, end |-> SetMax(closes) + Len(OlClose)]

\* <ol[^>]*>.*?</ol> searched from position p on: [ok, start, end) of the
\* leftmost match, which closes at the first </ol> after the opening tag
OlFrom(s, p) ==
    LET hits == {o \in p..Len(s) :
                    /\ MatchLit(s, o, OlOpen)
                    /\ FindLit(s, o + Len(OlOpen), Gt) > 0
                    /\ FindLit(s, FindLit(s, o + Len(OlOpen), Gt) + 1, OlClose) > 0}
    IN  IF hits = {} THEN [ok |-> FALSE, start |-> 0, end |-> 0]
        ELSE LET o == SetMin(hits)
                 g == FindLit(s, o + Len(OlOpen), Gt)
                 e == FindLit(s, g + 1, OlClose)
             IN  [ok |-> TRUE, start |-> o, end |-> e + Len(OlClose)]

NoSection == [ok |-> FALSE, title |-> <<>>, content |-> <<>>, end |-> 0]

\* <h2[^>]*>([^<]+)</h2>(.*?<ol[^>]*>.*?</ol>) tried at position p
SectionAt(s, p) ==
    LET g  == FindLit(s, p + Len(H2Open), Gt)
        t  == g + 1
        lt == FindLit(s, t, Lt)
        c  == lt + Len(H2Close)
        ol == OlFrom(s, c)
    IN  IF /\ MatchLit(s, p, H2Open)
           /\ g > 0
           /\ lt > t
           /\ MatchLit(s, lt, H2Close)
           /\ ol.ok
        THEN [ok |-> TRUE, title |-> SubSeq(s, t, lt - 1),
              content |-> SubSeq(s, c, ol.end - 1), end |-> ol.end]
        ELSE NoSection

\* re.findall(section_pattern, body, re.DOTALL)
RECURSIVE FindAllSections(_, _)
FindAllSections(s, p) ==
    LET c == FindLit(s, p, H2Open)
    IN  IF c = 0 THEN <<>>
        ELSE LET m == SectionAt(s, c)
             IN  IF m.ok THEN <<m>> \o FindAllSections(s, m.end)
                 ELSE FindAllSections(s, c + 1)

\* the membership test on the stripped title, without regard to case
Lower(c) == IF c = "A" THEN "a" ELSE IF c = "N" THEN "n" ELSE IF c = "D" THEN "d" ELSE c

LowerAll(s) == [k \in 1..Len(s) |-> Lower(s[k])]

IsSectionAnyCase(title) == \E n \in SectionNames : LowerAll(n) = LowerAll(title)

\* title in ['Articles', 'New Articles', 'Discussions']
IsSection(title) == title \in SectionNames

\* the body of the for loop of extract_content, for one match
SectionOf(m) ==
    LET title == Strip(m.title)
    IN  IF IsSection(title)
        THEN LET ol_match == OlFrom(m.content, 1)
             IN  IF ol_match.ok
                 THEN <<<<"<", "h", "3", ">">> \o title \o <<"<", "/", "h", "3", ">", "\n">>
                         \o SubSeq(m.content, ol_match.start, ol_match.end - 1)>>
                 ELSE <<>>
        ELSE <<>>

RECURSIVE SectionsOf(_)
SectionsOf(ms) ==
    IF ms = <<>> THEN <<>> ELSE SectionOf(Head(ms)) \o SectionsOf(Tail(ms))

\* sep.join(parts)
RECURSIVE Join(_, _)
Join(parts, sep) ==
    IF parts = <<>> THEN <<>>
    ELSE IF Len(parts) = 1 THEN parts[1]
    ELSE parts[1] \o sep \o Join(Tail(parts), sep)

extract_content(text) ==
    LET body_match == BodyOf(text)
    IN  IF body_match = None THEN None
        ELSE LET sections == SectionsOf(FindAllSections(body_match[1], 1))
             IN  IF sections # <<>> THEN Some(Join(sections, <<"\n">>)) ELSE None

---------------------------------------------------------------------------
(* Issue pages: the inputs of extract_content *)

\* One block of an issue page: a level-2 heading (its tag attributes, its
\* text as written, its text once trimmed, and whether that is one of the
\* three section names), the markup after it, and the ordered list that follows, if any:
\* "flat", "nested" (an ordered list inside a list item) or "none".
B1 == [attrs |-> <<" ", "i", "d", "=", "\"", "a", "\"">>, heading |-> <<"A", "r", "t", "i", "c", "l", "e", "s">>, name |-> <<"A", "r", "t", "i", "c", "l", "e", "s">>,
       known |-> TRUE, gap |-> <<>>,
       list |-> "flat", olattrs |-> <<>>, item |-> <<"a", "&", "a", "m", "p", ";", "b">>]
B2 == [attrs |-> <<>>, heading |-> <<" ", "D", "i", "s", "c", "u", "s", "s", "i", "o", "n", "s", "\n">>, name |-> <<"D", "i", "s", "c", "u", "s", "s", "i", "o", "n", "s">>,
       known |-> TRUE, gap |-> <<"<", "p", ">", "x", "<", "/", "p", ">">>,
       list |-> "flat", olattrs |-> <<" ", "s", "t", "a", "r", "t", "=", "\"", "1", "\"">>, item |-> <<"d">>]
B3 == [attrs |-> <<>>, heading |-> <<"R", "a", "n", "d", "o", "m">>, name |-> <<"R", "a", "n", "d", "o", "m">>,
       known |-> FALSE, gap |-> <<>>,
       list |-> "flat", olattrs |-> <<>>, item |-> <<"r">>]
B4 == [attrs |-> <<>>, heading |-> <<"a", "r", "t", "i", "c", "l", "e", "s">>, name |-> <<"a", "r", "t", "i", "c", "l", "e", "s">>,
       known |-> FALSE, gap |-> <<>>,
       list |-> "flat", olattrs |-> <<>>, item |-> <<"l">>]
B5 == [attrs |-> <<>>, heading |-> <<"N", "e", "w", " ", "A", "r", "t", "i", "c", "l", "e", "s">>, name |-> <<"N", "e", "w", " ", "A", "r", "t", "i", "c", "l", "e", "s">>,
       known |-> TRUE, gap |-> <<"<", "p", ">", "-", "<", "/", "p", ">">>,
       list |-> "none", olattrs |-> <<>>, item |-> <<>>]
B6 == [attrs |-> <<>>, heading |-> <<"A", "r", "t", "i", "c", "l", "e", "s">>, name |-> <<"A", "r", "t", "i", "c", "l", "e", "s">>,
       known |-> TRUE, gap |-> <<>>,
       list |-> "nested", olattrs |-> <<>>, item |-> <<"n">>]

BlockPool == {B1, B2, B3, B4, B5, B6}

InnerList == <<"<", "o", "l", ">", "<", "l", "i", ">", "i", "<", "/", "l", "i", ">", "<", "/", "o", "l", ">">>

\* the whole ordered-list element of a block
WholeList(b) ==
    IF b.list = "none" THEN <<>>
    ELSE OlOpen \o b.olattrs \o Gt \o <<"<", "l", "i", ">">> \o b.item
            \o (IF b.list = "nested" THEN InnerList ELSE <<>>) \o <<"<", "/", "l", "i", ">">> \o OlClose

RenderBlock(b) ==
    H2Open \o b.attrs \o Gt \o b.heading \o H2Close \o b.gap \o WholeList(b)

RenderPage(bs, withBody) ==
    LET inner == Flatten([k \in 1..Len(bs) |-> RenderBlock(bs[k])])
    IN  IF withBody
        THEN <<"<", "h", "t", "m", "l", ">", "<", "b", "o", "d", "y", " ", "c", "l", "a", "s", "s", "=", "\"", "w", "\"", ">">> \o inner \o <<"<", "/", "b", "o", "d", "y", ">", "<", "/", "h", "t", "m", "l", ">">>
        ELSE <<"<", "h", "t", "m", "l", ">">> \o inner \o <<"<", "/", "h", "t", "m", "l", ">">>

---------------------------------------------------------------------------
(* generate_rss *)

\* ElementTree's _escape_cdata: & < > become entities
EscapeChar(c) ==
    IF c = "&" THEN <<"&", "a", "m", "p", ";">>
    ELSE IF c = "<" THEN <<"&", "l", "t", ";">>
    ELSE IF c = ">" THEN <<"&", "g", "t", ";">>
    ELSE <<c>>

EscapeCdata(text) == Flatten([k \in 1..Len(text) |-> EscapeChar(text[k])])

\* serialisation of an element that holds text only (an empty one is <tag />)
TextElement(tag, text) ==
    IF text = <<>> THEN Lt \o tag \o <<" ", "/", ">">>
    ELSE Lt \o tag \o Gt \o EscapeCdata(text) \o <<"<", "/">> \o tag \o Gt

\* serialisation of an element that holds child elements only
ParentElement(tag, attrs, children) ==
    IF children = <<>> THEN Lt \o tag \o attrs \o <<" ", "/", ">">>
    ELSE Lt \o tag \o attrs \o Gt \o Flatten(children) \o <<"<", "/">> \o tag \o Gt

FallbackDescription(issue) ==
    <<"W", "e", "e", "k", "l", "y", " ", "s", "u", "m", "m", "a", "r", "y", " ", "o", "f", " ", "t", "h", "e", " ", "m", "o", "s", "t", " ", "e", "d", "i", "t", "e", "d", " ", "W", "i", "k", "i", "p", "e", "d", "i", "a", " ", "a", "r", "t", "i", "c", "l", "e", "s", " ", "a", "n", "d", " ", "d", "i", "s", "c", "u", "s", "s", "i", "o", "n", "s", " ", "f", "o", "r", " ", "t", "h", "e", " ", "w", "e", "e", "k", " ", "e", "n", "d", "i", "n", "g", " ">>
        \o issue.date_text \o <<".">>

\* a description that falls back only when content is None, not when it is ""
DescriptionOfNoneOnly(issue) ==
    IF issue.content # None THEN issue.content[1] ELSE FallbackDescription(issue)

\* content = issue.get("content"); if content: ... else: ...
DescriptionOf(issue) ==
    IF issue.content # None /\ issue.content[1] # <<>>
    THEN issue.content[1]
    ELSE FallbackDescription(issue)

ItemElement(issue) ==
    ParentElement(<<"i", "t", "e", "m">>, <<>>,
        << TextElement(<<"t", "i", "t", "l", "e">>, issue.title),
           TextElement(<<"l", "i", "n", "k">>, issue.url),
           TextElement(<<"g", "u", "i", "d">>, issue.url),
           TextElement(<<"p", "u", "b", "D", "a", "t", "e">>, Strftime(issue.date)),
           TextElement(<<"d", "e", "s", "c", "r", "i", "p", "t", "i", "o", "n">>, DescriptionOf(issue)) >>)

\* a slice that takes one item more than asked for
SliceOneMore(list, n) == SubSeq(list, 1, Min(n + 1, Len(list)))

\* list[:n] for n >= 0
Slice(list, n) == SubSeq(list, 1, Min(n, Len(list)))

\* a build date taken from the latest date of the list
LastBuildOfLatest(list) ==
    IF list = <<>> THEN <<>>
    ELSE LET key(d) == d[1] * 10000 + d[2] * 100 + d[3]
             k == CHOOSE a \in 1..Len(list) :
                     \A b \in 1..Len(list) : key(list[b].date) <= key(list[a].date)
         IN  <<TextElement(<<"l", "a", "s", "t", "B", "u", "i", "l", "d", "D", "a", "t", "e">>, Strftime(list[k].date))>>

\* if issues: lastBuildDate from issues[0]
LastBuildOf(list) ==
    IF list = <<>> THEN <<>>
    ELSE <<TextElement(<<"l", "a", "s", "t", "B", "u", "i", "l", "d", "D", "a", "t", "e">>, Strftime(list[1].date))>>

XmlDeclaration == <<"<", "?", "x", "m", "l", " ", "v", "e", "r", "s", "i", "o", "n", "=", "\"", "1", ".", "0", "\"", " ", "e", "n", "c", "o", "d", "i", "n", "g", "=", "\"", "U", "T", "F", "-", "8", "\"", "?", ">", "\n">>

generate_rss(list, max_items) ==
    LET shown == Slice(list, max_items)
        channel ==
            ParentElement(<<"c", "h", "a", "n", "n", "e", "l">>, <<>>,
                << TextElement(<<"t", "i", "t", "l", "e">>, FEED_TITLE),
                   TextElement(<<"l", "i", "n", "k">>, FEED_LINK),
                   TextElement(<<"d", "e", "s", "c", "r", "i", "p", "t", "i", "o", "n">>, FEED_DESCRIPTION),
                   TextElement(<<"l", "a", "n", "g", "u", "a", "g", "e">>, <<"e", "n">>) >>
                \o LastBuildOf(list)
                \o [k \in 1..Len(shown) |-> ItemElement(shown[k])])
    IN  XmlDeclaration \o ParentElement(<<"r", "s", "s">>, <<" ", "v", "e", "r", "s", "i", "o", "n", "=", "\"", "2", ".", "0", "\"">>, <<channel>>)

---------------------------------------------------------------------------
(* main: the orchestrator *)

\* the k-th entry of the index pages that main fetches
MainAnchor(k) ==
    [dir |-> <<2025, 1, k>>, file |-> <<2025, 1, k>>,
     label |-> <<"J", "a", "n", " ">> \o NatChars(k), trimmed |-> <<"J", "a", "n", " ">> \o NatChars(k),
     calendar |-> TRUE, shaped |-> TRUE]

MainIndex(n) == [k \in 1..n |-> MainAnchor(k)]

\* the issue page that a successful fetch in main returns
MainPages == {RenderPage(<<B1, B2>>, TRUE)}

\* an enrichment loop over the whole list
EnrichAll(list) == Len(list)

\* len(issues[:FETCH_CONTENT_COUNT])
EnrichLimit(list) == Min(Len(list), FETCH_CONTENT_COUNT)

\* The conditions under which each step of main is taken.  What a step
\* assigns is always defined, so a step can be taken exactly when its
\* condition holds.
AtFetchIndex == pc = "fetch_index"
AtParse == pc = "parse"
InLoop == pc = "enrich" /\ i <= EnrichLimit(issues)
LoopDone == pc = "enrich" /\ i > EnrichLimit(issues)
AtGenerate == pc = "generate"
AtWrite == pc = "write"

\* html = fetch_url(ARCHIVE_URL), the fetch succeeding
FetchIndexOk ==
    /\ AtFetchIndex
    /\ \E n \in 0..MaxIssues :
          /\ anchors' = MainIndex(n)
          /\ html' = RenderIndex(MainIndex(n))
    /\ fetchLog' = Append(fetchLog, ARCHIVE_URL)
    /\ pc' = "parse"
    /\ UNCHANGED <<issues, blocks, bodied, page, content, maxItems, rss_xml, i,
                   warnings, feed>>

\* html = fetch_url(ARCHIVE_URL), the fetch raising: nothing catches it
FetchIndexFail ==
    /\ AtFetchIndex
    /\ fetchLog' = Append(fetchLog, ARCHIVE_URL)
    /\ pc' = "aborted"
    /\ UNCHANGED <<anchors, html, issues, blocks, bodied, page, content, maxItems,
                   rss_xml, i, warnings, feed>>

\* issues = parse_issues(html)
ParseIssues ==
    /\ AtParse
    /\ issues' = parse_issues(html)
    /\ i' = 1
    /\ pc' = "enrich"
    /\ UNCHANGED <<anchors, html, blocks, bodied, page, content, maxItems, rss_xml,
                   fetchLog, warnings, feed>>

\* one turn of the loop: fetch_issue_content fetches and extracts
FetchIssueOk ==
    /\ InLoop
    /\ \E pg \in MainPages :
          issues' = [issues EXCEPT ![i].content = extract_content(pg)]
    /\ fetchLog' = Append(fetchLog, issues[i].url)
    /\ i' = i + 1
    /\ UNCHANGED <<pc, anchors, html, blocks, bodied, page, content, maxItems,
                   rss_xml, warnings, feed>>

\* a turn of the loop in which the fetch raises and the exception escapes
FetchIssueFailUncaught ==
    /\ InLoop
    /\ fetchLog' = Append(fetchLog, issues[i].url)
    /\ pc' = "aborted"
    /\ UNCHANGED <<anchors, html, issues, blocks, bodied, page, content, maxItems,
                   rss_xml, i, warnings, feed>>

\* one turn of the loop: the fetch raises, fetch_issue_content prints the
\* warning and returns None
FetchIssueFail ==
    /\ InLoop
    /\ issues' = [issues EXCEPT ![i].content = None]
    /\ fetchLog' = Append(fetchLog, issues[i].url)
    /\ warnings' = Append(warnings, issues[i].url)
    /\ i' = i + 1
    /\ UNCHANGED <<pc, anchors, html, blocks, bodied, page, content, maxItems,
                   rss_xml, feed>>

\* the loop is exhausted
EndEnrich ==
    /\ LoopDone
    /\ pc' = "generate"
    /\ UNCHANGED <<anchors, html, issues, blocks, bodied, page, content, maxItems,
                   rss_xml, i, fetchLog, warnings, feed>>

\* rss_xml = generate_rss(issues)
GenerateRss ==
    /\ AtGenerate
    /\ rss_xml' = Some(generate_rss(issues, maxItems))
    /\ pc' = "write"
    /\ UNCHANGED <<anchors, html, issues, blocks, bodied, page, content, maxItems,
                   i, fetchLog, warnings, feed>>

\* f.write(rss_xml)
WriteFeed ==
    /\ AtWrite
    /\ feed' = rss_xml
    /\ pc' = "done"
    /\ UNCHANGED <<anchors, html, issues, blocks, bodied, page, content, maxItems,
                   rss_xml, i, fetchLog, warnings>>

Init ==
    /\ pc = "fetch_index"
    /\ anchors = <<>>
    /\ html = <<>>
    /\ issues = <<>>
    /\ blocks = <<>>
    /\ bodied = FALSE
    /\ page = <<>>
    /\ content = None
    /\ maxItems = DefaultMaxItems
    /\ rss_xml = None
    /\ i = 1
    /\ fetchLog = <<>>
    /\ warnings = <<>>
    /\ feed = None

Next ==
    \/ FetchIndexOk
    \/ FetchIndexFail
    \/ ParseIssues
    \/ FetchIssueOk
    \/ FetchIssueFail
    \/ EndEnrich
    \/ GenerateRss
    \/ WriteFeed

Spec == Init /\ [][Next]_vars

---------------------------------------------------------------------------
(* parse_issues applied to index pages of up to MaxAnchors entries *)

InitParse ==
    /\ pc = "parse"
    /\ anchors \in SeqsUpTo(AnchorPool, MaxAnchors)
    /\ html = RenderIndex(anchors)
    /\ issues = <<>>
    /\ blocks = <<>>
    /\ bodied = FALSE
    /\ page = <<>>
    /\ content = None
    /\ maxItems = DefaultMaxItems
    /\ rss_xml = None
    /\ i = 1
    /\ fetchLog = <<>>
    /\ warnings = <<>>
    /\ feed = None

NextParse == ParseIssues

ParseSpec == InitParse /\ [][NextParse]_vars

---------------------------------------------------------------------------
(* extract_content applied to issue pages of up to MaxBlocks blocks *)

ExtractContent ==
    /\ pc = "extract"
    /\ content' = extract_content(page)
    /\ pc' = "extracted"
    /\ UNCHANGED <<anchors, html, issues, blocks, bodied, page, maxItems, rss_xml,
                   i, fetchLog, warnings, feed>>

InitExtract ==
    /\ pc = "extract"
    /\ anchors = <<>>
    /\ html = <<>>
    /\ issues = <<>>
    /\ blocks \in SeqsUpTo(BlockPool, MaxBlocks)
    /\ bodied \in BOOLEAN
    /\ page = RenderPage(blocks, bodied)
    /\ content = None
    /\ maxItems = DefaultMaxItems
    /\ rss_xml = None
    /\ i = 1
    /\ fetchLog = <<>>
    /\ warnings = <<>>
    /\ feed = None

NextExtract == ExtractContent

ExtractSpec == InitExtract /\ [][NextExtract]_vars

---------------------------------------------------------------------------
(* generate_rss applied to lists of up to MaxRssLen descriptors *)

ParsedSample == parse_issues(RenderIndex(<<A1, A2, A5>>))

WithContent(issue, c) == [issue EXCEPT !.content = c]

\* descriptors as parse_issues makes them, with content absent, extracted
\* from a page, or the empty string
IssuePool ==
    { ParsedSample[1],
      WithContent(ParsedSample[2], extract_content(RenderPage(<<B1, B2>>, TRUE))),
      WithContent(ParsedSample[3], Some(<<>>)) }

InitRss ==
    /\ pc = "generate"
    /\ anchors = <<>>
    /\ html = <<>>
    /\ issues \in SeqsUpTo(IssuePool, MaxRssLen)
    /\ blocks = <<>>
    /\ bodied = FALSE
    /\ page = <<>>
    /\ content = None
    /\ maxItems \in 0..MaxItemsArg
    /\ rss_xml = None
    /\ i = 1
    /\ fetchLog = <<>>
    /\ warnings = <<>>
    /\ feed = None

NextRss == GenerateRss

RssSpec == InitRss /\ [][NextRss]_vars

---------------------------------------------------------------------------
(* Reading the outputs back: helpers of the properties below *)

CountLit(s, lit) == Cardinality({p \in 1..Len(s) : MatchLit(s, p, lit)})

\* the texts of the <tag>...</tag> elements of a document, in document order
RECURSIVE ElementTextsFrom(_, _, _)
ElementTextsFrom(s, p, tag) ==
    LET open == Lt \o tag \o Gt
        close == <<"<", "/">> \o tag \o Gt
        o == FindLit(s, p, open)
        c == IF o = 0 THEN 0 ELSE FindLit(s, o + Len(open), close)
    IN  IF o = 0 \/ c = 0 THEN <<>>
        ELSE <<SubSeq(s, o + Len(open), c - 1)>> \o ElementTextsFrom(s, c + Len(close), tag)

ElementTexts(s, tag) == ElementTextsFrom(s, 1, tag)

\* what an XML reader makes of character data: entities become characters
EntityAt(s, p) ==
    IF MatchLit(s, p, <<"&", "a", "m", "p", ";">>) THEN [len |-> 5, char |-> "&"]
    ELSE IF MatchLit(s, p, <<"&", "l", "t", ";">>) THEN [len |-> 4, char |-> "<"]
    ELSE IF MatchLit(s, p, <<"&", "g", "t", ";">>) THEN [len |-> 4, char |-> ">"]
    ELSE [len |-> 0, char |-> ""]

Unescape(s) ==
    Flatten([p \in 1..Len(s) |->
        IF EntityAt(s, p).len > 0 THEN <<EntityAt(s, p).char>>
        ELSE IF \E q \in (p - 4)..(p - 1) : q >= 1 /\ q + EntityAt(s, q).len > p THEN <<>>
        ELSE <<s[p]>>])

UnescapeAll(ts) == [k \in 1..Len(ts) |-> Unescape(ts[k])]

---------------------------------------------------------------------------
(* C1, C7: parse_issues *)

\* what the claim expects of one entry of the index page
ExpectedIssues(a) ==
    IF a.shaped /\ a.calendar
    THEN << [url |-> BASE_URL \o PathOf(a),
             title |-> <<"W", "e", "e", "k", "l", "y", "p", "e", "d", "i", "a", " ", "-", " ">> \o a.trimmed,
             date |-> a.dir,
             date_text |-> a.trimmed,
             content |-> None] >>
    ELSE <<>>

\* C1: parse_issues returns, in the order of the page, one descriptor for each
\* matched anchor whose date token is a calendar date (url = base address +
\* path, title = 'Weeklypedia - ' + trimmed label, date = the parsed token);
\* anchors with an unparsable token are dropped without ending the scan, and
\* a path that appears twice yields two descriptors.
C1_ParseIssuesKeepsValidAnchorsInOrder ==
    pc = "enrich" =>
        issues = Flatten([k \in 1..Len(anchors) |-> ExpectedIssues(anchors[k])])

\* an invalid entry dropped between two kept entries that have the same path
C1_Witness ==
    /\ pc = "enrich"
    /\ anchors = <<A1, A3, A1>>
    /\ Len(issues) = 2
    /\ issues[1].url = issues[2].url

DirToken(url) == SubSeq(url, Len(BASE_URL) + 1, Len(BASE_URL) + 8)
FileToken(url) ==
    SubSeq(url, Len(BASE_URL) + 8 + Len(WpLit) + 1, Len(BASE_URL) + 8 + Len(WpLit) + 8)

\* C7 as stated: every descriptor's url has the same 8-digit token in its
\* directory part and in its file name, and the date agrees with both.
C7_TokensOfUrlAreEqual ==
    pc = "enrich" =>
        \A k \in 1..Len(issues) :
            /\ DirToken(issues[k].url) = FileToken(issues[k].url)
            /\ Token(issues[k].date) = DirToken(issues[k].url)
            /\ Token(issues[k].date) = FileToken(issues[k].url)

\* C7 amended: every descriptor's url is the base address followed by
\* <8 digits>/weeklypedia_<8 digits>.html, the two tokens are not compared
\* with each other, and the descriptor's date is the date of the first
\* (directory) token; an anchor whose tokens differ is kept when its
\* directory token is a calendar date.
C7_DateIsDirectoryToken ==
    pc = "enrich" =>
        /\ \A k \in 1..Len(issues) :
              /\ Len(issues[k].url) = Len(BASE_URL) + 8 + Len(WpLit) + 8 + Len(HtmlLit)
              /\ DigitsAt(DirToken(issues[k].url), 1, 8)
              /\ DigitsAt(FileToken(issues[k].url), 1, 8)
              /\ Token(issues[k].date) = DirToken(issues[k].url)
        /\ \A j \in 1..Len(anchors) :
              (anchors[j].shaped /\ anchors[j].calendar) =>
                  \E k \in 1..Len(issues) :
                      /\ issues[k].url = BASE_URL \o PathOf(anchors[j])
                      /\ issues[k].date = anchors[j].dir

\* a descriptor whose url carries two different tokens
C7_Witness ==
    /\ pc = "enrich"
    /\ \E k \in 1..Len(issues) :
          /\ DirToken(issues[k].url) # FileToken(issues[k].url)
          /\ Token(issues[k].date) = DirToken(issues[k].url)

---------------------------------------------------------------------------
(* C2, C8, C10: extract_content *)

\* The occurrences of a page made of blocks: a heading, then the first
\* ordered list after it; the scan resumes after that list.  An occurrence
\* is <<index of the heading's block, index of the list's block>>.
RECURSIVE OccurrencesFrom(_, _, _)
OccurrencesFrom(bs, k, pending) ==
    IF k > Len(bs) THEN <<>>
    ELSE LET h == IF pending = 0 THEN k ELSE pending
         IN  IF bs[k].list = "none" THEN OccurrencesFrom(bs, k + 1, h)
             ELSE <<<<h, k>>>> \o OccurrencesFrom(bs, k + 1, 0)

Occurrences(bs) == OccurrencesFrom(bs, 1, 0)

KeptOccurrences(bs) ==
    SelectSeq(Occurrences(bs), LAMBDA o : bs[o[1]].known)

\* a block's list from its opening tag through the first </ol> after it
ListToFirstClose(b) ==
    OlOpen \o b.olattrs \o Gt \o <<"<", "l", "i", ">">> \o b.item
        \o (IF b.list = "nested" THEN InnerList ELSE <<"<", "/", "l", "i", ">", "<", "/", "o", "l", ">">>)

Wrapped(name, list) == <<"<", "h", "3", ">">> \o name \o <<"<", "/", "h", "3", ">">> \o <<"\n">> \o list

FragmentOf(parts) == IF parts = <<>> THEN None ELSE Some(Join(parts, <<"\n">>))

\* C2: for a page with a body, the fragment is made of exactly the
\* occurrences whose trimmed heading is 'Articles', 'New Articles' or
\* 'Discussions' (case-sensitively), each under a level-3 heading, in the
\* order found, joined by single line breaks; None when none is kept.
C2_FragmentHoldsRecognizedSectionsOnly ==
    (pc = "extracted" /\ bodied) =>
        LET kept == KeptOccurrences(blocks)
        IN  content = FragmentOf([k \in 1..Len(kept) |->
                         Wrapped(blocks[kept[k][1]].name,
                                 ListToFirstClose(blocks[kept[k][2]]))])

\* a page with two recognized sections around an unrecognized one
C2_Witness ==
    /\ pc = "extracted"
    /\ bodied
    /\ blocks = <<B1, B3, B2>>
    /\ content # None
    /\ CountLit(content[1], <<"<", "h", "3", ">">>) = 2

\* the lists of a fragment: what follows each level-3 heading line, up to
\* the line break before the next level-3 heading
ListsOfFragment(frag) ==
    LET starts == {p \in 1..Len(frag) : MatchLit(frag, p, <<"<", "h", "3", ">">>)}
        ends(p) == LET later == {q \in starts : q > p}
                   IN  IF later = {} THEN Len(frag) ELSE SetMin(later) - 2
        first(p) == FindLit(frag, p, <<"<", "/", "h", "3", ">">>) + Len(<<"<", "/", "h", "3", ">">>) + 1
    IN  {SubSeq(frag, first(p), ends(p)) : p \in starts}

\* C8 as stated: the list of every kept occurrence is the whole ordered-list
\* element, through its matching closing tag, also when a list is nested.
C8_ListIsWholeElement ==
    (pc = "extracted" /\ bodied /\ content # None) =>
        LET kept == KeptOccurrences(blocks)
        IN  ListsOfFragment(content[1])
                = {WholeList(blocks[kept[k][2]]) : k \in 1..Len(kept)}

\* C8 amended: the list of every kept occurrence runs from the ordered
\* list's opening tag through the first </ol> after it: the whole element
\* when no ordered list is nested in it, and up to the nested list's closing
\* tag when one is.
C8_ListEndsAtFirstClosingTag ==
    (pc = "extracted" /\ bodied /\ content # None) =>
        LET kept == KeptOccurrences(blocks)
        IN  ListsOfFragment(content[1])
                = {ListToFirstClose(blocks[kept[k][2]]) : k \in 1..Len(kept)}

\* a kept section whose list has a nested list, followed by another section
C8_Witness ==
    /\ pc = "extracted"
    /\ bodied
    /\ blocks = <<B6, B2>>
    /\ content # None
    /\ ListToFirstClose(B6) \in ListsOfFragment(content[1])
    /\ WholeList(B6) \notin ListsOfFragment(content[1])

\* C10: every list of the fragment is labelled with the nearest level-2
\* heading before it, so a recognized heading directly followed by its own
\* list is kept under its own name whatever precedes it.
C10_ListLabelledByNearestHeading ==
    (pc = "extracted" /\ bodied) =>
        LET own == SelectSeq([k \in 1..Len(blocks) |-> k],
                             LAMBDA k : blocks[k].list # "none" /\ blocks[k].known)
        IN  content = FragmentOf([k \in 1..Len(own) |->
                         Wrapped(blocks[own[k]].name, ListToFirstClose(blocks[own[k]]))])

---------------------------------------------------------------------------
(* C3, C4, C5: generate_rss *)

Shown == SubSeq(issues, 1, IF maxItems <= Len(issues) THEN maxItems ELSE Len(issues))

HasContent(issue) == issue.content # None /\ issue.content[1] # <<>>

FallbackSentence(dateText) ==
    <<"W", "e", "e", "k", "l", "y", " ", "s", "u", "m", "m", "a", "r", "y", " ", "o", "f", " ", "t", "h", "e", " ", "m", "o", "s", "t", " ", "e", "d", "i", "t", "e", "d", " ", "W", "i", "k", "i", "p", "e", "d", "i", "a", " ", "a", "r", "t", "i", "c", "l", "e", "s", " ", "a", "n", "d", " ", "d", "i", "s", "c", "u", "s", "s", "i", "o", "n", "s">>
        \o <<" ", "f", "o", "r", " ", "t", "h", "e", " ", "w", "e", "e", "k", " ", "e", "n", "d", "i", "n", "g", " ">> \o dateText \o <<".">>

C4_ItemsAreFirstMaxItemsInOrder ==
    pc = "write" =>
        LET doc == rss_xml[1]
            n == IF maxItems <= Len(issues) THEN maxItems ELSE Len(issues)
        IN  /\ CountLit(doc, <<"<", "i", "t", "e", "m", ">">>) = n
            /\ CountLit(doc, <<"<", "/", "i", "t", "e", "m", ">">>) = n
            /\ UnescapeAll(ElementTexts(doc, <<"g", "u", "i", "d">>)) = [k \in 1..n |-> issues[k].url]
            /\ UnescapeAll(ElementTexts(doc, <<"l", "i", "n", "k">>))
                  = <<FEED_LINK>> \o [k \in 1..n |-> issues[k].url]
            /\ UnescapeAll(ElementTexts(doc, <<"t", "i", "t", "l", "e">>))
                  = <<FEED_TITLE>> \o [k \in 1..n |-> issues[k].title]

\* a list cut by max_items, its descriptors distinct
C4_Witness ==
    /\ pc = "write"
    /\ Len(issues) = 3
    /\ maxItems = 2
    /\ issues[1].url # issues[2].url
    /\ issues[3].url # issues[2].url
    /\ CountLit(rss_xml[1], <<"<", "i", "t", "e", "m", ">">>) = 2

BuildDateText(date) ==
    IF date = <<2025, 1, 2>> THEN <<"T", "h", "u", ",", " ", "0", "2", " ", "J", "a", "n", " ", "2", "0", "2", "5", " ", "1", "2", ":", "0", "0", ":", "0", "0", " ", "G", "M", "T">>
    ELSE IF date = <<2024, 2, 29>> THEN <<"T", "h", "u", ",", " ", "2", "9", " ", "F", "e", "b", " ", "2", "0", "2", "4", " ", "1", "2", ":", "0", "0", ":", "0", "0", " ", "G", "M", "T">>
    ELSE IF date = <<2025, 3, 1>> THEN <<"S", "a", "t", ",", " ", "0", "1", " ", "M", "a", "r", " ", "2", "0", "2", "5", " ", "1", "2", ":", "0", "0", ":", "0", "0", " ", "G", "M", "T">>
    ELSE <<>>

EmptyFeed ==
    <<"<", "?", "x", "m", "l", " ", "v", "e", "r", "s", "i", "o", "n", "=", "\"", "1", ".", "0", "\"", " ", "e", "n", "c", "o", "d", "i", "n", "g", "=", "\"", "U", "T", "F", "-", "8", "\"", "?", ">", "\n", "<", "r", "s", "s", " ", "v", "e", "r", "s", "i", "o", "n", "=", "\"", "2", ".", "0", "\"", ">", "<", "c", "h", "a", "n", "n", "e", "l", ">">>
        \o <<"<", "t", "i", "t", "l", "e", ">", "W", "e", "e", "k", "l", "y", "p", "e", "d", "i", "a", "<", "/", "t", "i", "t", "l", "e", ">", "<", "l", "i", "n", "k", ">", "h", "t", "t", "p", "s", ":", "/", "/", "w", "e", "e", "k", "l", "y", ".", "h", "a", "t", "n", "o", "t", "e", ".", "c", "o", "m", "/", "<", "/", "l", "i", "n", "k", ">">>
        \o <<"<", "d", "e", "s", "c", "r", "i", "p", "t", "i", "o", "n", ">", "T", "h", "e", " ", "m", "o", "s", "t", " ", "e", "d", "i", "t", "e", "d", " ", "W", "i", "k", "i", "p", "e", "d", "i", "a", " ", "a", "r", "t", "i", "c", "l", "e", "s", " ", "a", "n", "d", " ", "d", "i", "s", "c", "u", "s", "s", "i", "o", "n", "s">>
        \o <<" ", "f", "r", "o", "m", " ", "t", "h", "e", " ", "l", "a", "s", "t", " ", "w", "e", "e", "k", "<", "/", "d", "e", "s", "c", "r", "i", "p", "t", "i", "o", "n", ">", "<", "l", "a", "n", "g", "u", "a", "g", "e", ">", "e", "n", "<", "/", "l", "a", "n", "g", "u", "a", "g", "e", ">">>
        \o <<"<", "/", "c", "h", "a", "n", "n", "e", "l", ">", "<", "/", "r", "s", "s", ">">>

\* C5: the channel has a lastBuildDate exactly when the list is non-empty,
\* and then it is the date of the first descriptor, whatever max_items is and
\* whatever the dates of the later descriptors; for an empty list the
\* document is the channel with its four static fields and nothing else.
C5_LastBuildDateIsFirstIssuesDate ==
    pc = "write" =>
        LET doc == rss_xml[1]
        IN  /\ CountLit(doc, <<"<", "l", "a", "s", "t", "B", "u", "i", "l", "d", "D", "a", "t", "e", ">">>) = (IF issues = <<>> THEN 0 ELSE 1)
            /\ issues # <<>> =>
                  ElementTexts(doc, <<"l", "a", "s", "t", "B", "u", "i", "l", "d", "D", "a", "t", "e">>) = <<BuildDateText(issues[1].date)>>
            /\ issues = <<>> => doc = EmptyFeed

\* no item is shown and a later descriptor has a later date than the first
C5_Witness ==
    /\ pc = "write"
    /\ maxItems = 0
    /\ Len(issues) = 2
    /\ issues[1].date = <<2024, 2, 29>>
    /\ issues[2].date = <<2025, 1, 2>>
    /\ CountLit(rss_xml[1], <<"<", "l", "a", "s", "t", "B", "u", "i", "l", "d", "D", "a", "t", "e", ">">>) = 1

---------------------------------------------------------------------------
(* C6, C9: main *)

Fetched == Len(fetchLog) - 1

C9_State ==
    pc \in {"parse", "enrich", "generate", "write", "done"} =>
        /\ fetchLog = <<ARCHIVE_URL>> \o [k \in 1..Fetched |-> issues[k].url]
        /\ Fetched <= 10
        /\ Fetched <= Len(issues)
        /\ (pc = "enrich" => Fetched = i - 1)
        /\ (pc \in {"generate", "write", "done"} =>
               /\ (Fetched = 10 \/ Fetched = Len(issues))
               /\ \A k \in 1..Len(issues) : k > 10 => issues[k].content = None)

C9_Step == (pc \in {"generate", "write"}) => (issues' = issues)

\* C9: the content fetches of a run are those of the first
\* min(FETCH_CONTENT_COUNT, n) descriptors, in index order, once each, all
\* done before generate_rss is called; a later descriptor reaches
\* generate_rss with no content, and generate_rss changes no descriptor.
C9_FetchesAreTheBoundedPrefixInOrder == []C9_State /\ [][C9_Step]_vars

\* a finished run over more descriptors than are fetched
C9_Witness ==
    /\ pc = "done"
    /\ Len(issues) = 11
    /\ Fetched = 10
    /\ issues[10].content # None
    /\ issues[11].content = None

C6_Done ==
    pc = "done" =>
        /\ feed # None
        /\ CountLit(feed[1], <<"<", "i", "t", "e", "m", ">">>)
              = (IF Len(issues) <= 50 THEN Len(issues) ELSE 50)
        /\ \A k \in 1..Len(issues) :
              (\E w \in 1..Len(warnings) : warnings[w] = issues[k].url)
                  => issues[k].content = None

C6_Aborted == pc = "aborted" => (fetchLog = <<ARCHIVE_URL>> /\ issues = <<>>)

C6_Step ==
    (pc = "enrich") =>
        /\ Len(issues') = Len(issues)
        /\ \A k \in 1..Len(issues) : (k # i) => (issues'[k] = issues[k])

\* before its end the run can always take its next step ...
C6_NeverStuck ==
    \/ pc \in {"done", "aborted"}
    \/ AtFetchIndex \/ AtParse \/ InLoop \/ LoopDone \/ AtGenerate \/ AtWrite

\* ... and every step moves it on: later in the program, or to the next issue
Rank ==
    LET at == CASE pc = "fetch_index" -> 0
                [] pc = "parse" -> 1
                [] pc = "enrich" -> 2
                [] pc = "generate" -> 3
                [] pc = "write" -> 4
                [] OTHER -> 5
    IN  at * (Len(issues) + 2) + (IF pc = "enrich" THEN i ELSE 0)

C6_Progress ==
    /\ Rank' > Rank
    /\ (pc' = "aborted") => (pc = "fetch_index")

\* C6: once the index is fetched the run ends with a feed written that has
\* an item for every parsed issue (up to the item limit), whichever issue
\* fetches fail; a failed fetch leaves its own issue without content, changes
\* no other issue and does not stop the later fetches; the run aborts only at
\* the index fetch.  (The end is reached because no state before it is
\* stuck and every step increases a bounded rank.)
C6_IssueFetchFailuresNeverAbort ==
    /\ []C6_Done
    /\ []C6_Aborted
    /\ []C6_NeverStuck
    /\ [][C6_Step]_vars
    /\ [][C6_Progress]_vars

\* a finished run in which a fetch failed and a later one succeeded
C6_Witness ==
    /\ pc = "done"
    /\ feed # None
    /\ Len(issues) >= 3
    /\ warnings = <<issues[1].url>>
    /\ issues[1].content = None
    /\ issues[2].content # None
    /\ CountLit(feed[1], <<"<", "i", "t", "e", "m", ">">>) = Len(issues)

=============================================================================
